---- MODULE Spec2Model ----
(***************************************************************************)
(* Model of src/memo.py: the tree editor's TreeModel (forest of node       *)
(* dicts, extra-edge overlay, undo/redo stacks, JSON persistence) and the  *)
(* TreeCanvas / TreeViewPanel / TreeEditorApp handlers that mutate it.     *)
(*                                                                         *)
(* Python node dicts are objects with identity: the heap `nodes` maps an   *)
(* object address to the dict's fields, and lists of nodes (tree_data,     *)
(* children) are sequences of addresses, so that one object standing in    *)
(* two lists is representable.  A dict key that may be missing ("id",      *)
(* "x"/"y") is an option: <<>> when the key is absent, <<v>> / <<x, y>>    *)
(* when present.  copy.deepcopy builds fresh objects; a snapshot keeps the *)
(* copied objects under the addresses of their originals, and every        *)
(* reference the user interface still holds to the objects that were live  *)
(* before an undo/redo/reset is turned into Detached (an object no list    *)
(* of the model reaches any more).                                         *)
(***************************************************************************)
EXTENDS Integers, Sequences, FiniteSets, TLC

\* ---------------------------------------------------------------- bounds
MaxObjects == 3
MaxHist == 2
GestureHist == 1
ScenarioHist == 4
MaxZoom == 3
MoveHist == 0

\* ------------------------------------------------------- program constants
InitialNextId == 1
RootStartX == 100
RootStartY == 50
RootGap == 150
BaseWidth == 80
ChildDy == 80
DragThreshold == 5

\* ------------------------------------------------------------ input sets
RootName == "Root"
Names == {"A"}
MemoInputs == {"", "m"}
Points == {<<106, 58>>}
\* a second stop for the pointer of a longer drag
MorePoints == Points \cup {<<130, 90>>}
\* a pointer position within the drag threshold of the point q
Jitter(q) == <<q[1] + 3, q[2] + 4>>

NoNode == 0
Detached == -1
None == <<>>
Some(v) == <<v>>

VARIABLES
    nodes,          \* heap of the live node dicts: address -> fields
    tree_data,      \* TreeModel.tree_data: sequence of root addresses
    extra_edges,    \* TreeModel.extra_edges: sequence of <<parent id, child id>>
    next_id,        \* TreeModel.next_id
    undo_stack,     \* TreeModel.undo_stack: sequence of snapshots
    redo_stack,     \* TreeModel.redo_stack
    file,           \* content of tree_data.json: None or Some(document)
    alloc,          \* number of node dicts created so far (next address - 1)
    canvas_node_map,\* TreeCanvas.canvas_node_map: ids of the drawn node items
    drag_data,      \* TreeCanvas.drag_data
    pending,        \* TreeCanvas.pending_additional_parent_child: None or Some(its id)
    popup_node,     \* node captured by the open memo popup: NoNode, address, Detached
    treeview_node_map, \* TreeViewPanel.treeview_node_map: nodes shown by the panel
    selection,      \* TreeViewPanel treeview selection: NoNode, address, Detached
    current_scale,  \* TreeCanvas.current_scale, a fraction [num, den]
    last            \* the last handler that called into the TreeModel (push_undo,
                    \* undo, redo, save_tree) or decided a pending link, with
                    \* its outcome

vars == <<nodes, tree_data, extra_edges, next_id, undo_stack, redo_stack, file,
          alloc, canvas_node_map, drag_data, pending, popup_node,
          treeview_node_map, selection, current_scale, last>>

\* ------------------------------------------------------------- helpers
Range(s) == {s[i] : i \in 1..Len(s)}

RECURSIVE RemoveFirst(_, _)
RemoveFirst(s, a) ==
    IF s = <<>> THEN <<>>
    ELSE IF Head(s) = a THEN Tail(s)
    ELSE <<Head(s)>> \o RemoveFirst(Tail(s), a)

RECURSIVE Closure(_, _)
Closure(h, S) ==
    LET T == S \cup UNION {Range(h[a].children) : a \in S \cap DOMAIN h}
    IN  IF T = S THEN S ELSE Closure(h, T)

Reach(h, roots) == Closure(h, Range(roots)) \cap DOMAIN h

Restrict(h, S) == [a \in S |-> h[a]]

\* str(n) and int(s) of the id strings
IdStr(n) == ToString(n)
IdInt(s) ==
    IF \E n \in 0..(MaxObjects + 2) : ToString(n) = s
    THEN CHOOSE n \in 0..(MaxObjects + 2) : ToString(n) = s
    ELSE -1

new_node_dict(name, idopt) ==
    [id |-> idopt, name |-> name, memo |-> "", pos |-> None, children |-> <<>>]

\* the TreeModel's fields as one value, threaded through a handler's statements
Model ==
    [nodes |-> nodes, tree_data |-> tree_data, extra_edges |-> extra_edges,
     next_id |-> next_id, undo_stack |-> undo_stack, redo_stack |-> redo_stack,
     alloc |-> alloc]

\* ------------------------------------------------------------- TreeModel
\* copy.deepcopy({"tree_data": ..., "extra_edges": ...})
deepcopy(m) ==
    [nodes |-> Restrict(m.nodes, Reach(m.nodes, m.tree_data)),
     tree_data |-> m.tree_data,
     extra_edges |-> m.extra_edges]

\* push_undo that leaves the redo stack as it is
push_undo_keeps_redo(m) ==
    [m EXCEPT !.undo_stack = Append(@, deepcopy(m))]

push_undo(m) ==
    [m EXCEPT !.undo_stack = Append(@, deepcopy(m)), !.redo_stack = <<>>]

\* undo that restores the forest and not the overlay
undo_keeps_overlay(m) ==
    IF m.undo_stack = <<>> THEN [ok |-> FALSE, m |-> m]
    ELSE LET state == m.undo_stack[Len(m.undo_stack)]
         IN  [ok |-> TRUE,
              m |-> [m EXCEPT !.redo_stack = Append(@, deepcopy(m)),
                              !.undo_stack = SubSeq(@, 1, Len(@) - 1),
                              !.nodes = state.nodes,
                              !.tree_data = state.tree_data]]

\* TreeModel.undo: ok is the returned flag, m the model afterwards
undo_rewinds_next_id(m) ==
    IF m.undo_stack = <<>> THEN [ok |-> FALSE, m |-> m]
    ELSE LET state == m.undo_stack[Len(m.undo_stack)]
             used == {IdInt(state.nodes[a].id[1]) : a \in DOMAIN state.nodes}
         IN  [ok |-> TRUE,
              m |-> [m EXCEPT !.redo_stack = Append(@, deepcopy(m)),
                              !.undo_stack = SubSeq(@, 1, Len(@) - 1),
                              !.nodes = state.nodes,
                              !.tree_data = state.tree_data,
                              !.extra_edges = state.extra_edges,
                              !.next_id = IF used = {} THEN InitialNextId
                                          ELSE 1 + CHOOSE n \in used :
                                                       \A k \in used : k <= n]]

undo(m) ==
    IF m.undo_stack = <<>> THEN [ok |-> FALSE, m |-> m]
    ELSE LET state == m.undo_stack[Len(m.undo_stack)]
         IN  [ok |-> TRUE,
              m |-> [m EXCEPT !.redo_stack = Append(@, deepcopy(m)),
                              !.undo_stack = SubSeq(@, 1, Len(@) - 1),
                              !.nodes = state.nodes,
                              !.tree_data = state.tree_data,
                              !.extra_edges = state.extra_edges]]

\* redo that takes its snapshot before it looks at the redo stack
redo_unguarded(m) ==
    IF m.redo_stack = <<>>
    THEN [ok |-> FALSE, m |-> [m EXCEPT !.undo_stack = Append(@, deepcopy(m))]]
    ELSE LET state == m.redo_stack[Len(m.redo_stack)]
         IN  [ok |-> TRUE,
              m |-> [m EXCEPT !.undo_stack = Append(@, deepcopy(m)),
                              !.redo_stack = SubSeq(@, 1, Len(@) - 1),
                              !.nodes = state.nodes,
                              !.tree_data = state.tree_data,
                              !.extra_edges = state.extra_edges]]

\* TreeModel.redo
redo(m) ==
    IF m.redo_stack = <<>> THEN [ok |-> FALSE, m |-> m]
    ELSE LET state == m.redo_stack[Len(m.redo_stack)]
         IN  [ok |-> TRUE,
              m |-> [m EXCEPT !.undo_stack = Append(@, deepcopy(m)),
                              !.redo_stack = SubSeq(@, 1, Len(@) - 1),
                              !.nodes = state.nodes,
                              !.tree_data = state.tree_data,
                              !.extra_edges = state.extra_edges]]

\* json.dump of one node dict: the nested value written to the file
RECURSIVE dump_node(_, _)
dump_node(h, a) ==
    [id |-> h[a].id, name |-> h[a].name, memo |-> h[a].memo, pos |-> h[a].pos,
     children |-> [i \in 1..Len(h[a].children) |-> dump_node(h, h[a].children[i])]]

dump_forest(h, roots) == [i \in 1..Len(roots) |-> dump_node(h, roots[i])]

\* a save in the legacy format
save_tree_legacy(m) ==
    Some([kind |-> "list", items |-> dump_forest(m.nodes, m.tree_data)])

\* TreeModel.save_tree: the document written to json_file
save_tree(m) ==
    Some([kind |-> "dict",
          tree_data |-> dump_forest(m.nodes, m.tree_data),
          extra_edges |-> m.extra_edges])

\* the node list both fallbacks of load_raw_data return, and __init__'s own
default_forest ==
    <<[id |-> None, name |-> RootName, memo |-> "", pos |-> None, children |-> <<>>]>>

\* TreeModel.load_raw_data: f is the file, None when it does not exist.  The
\* kind of a file is "malformed" when json.load raises JSONDecodeError, and
\* otherwise what json.load returns: "dict" for an object with the key
\* tree_data, "list" for an array, "other" for anything else
load_raw_data(f) ==
    IF f = None THEN [kind |-> "list", items |-> default_forest]
    ELSE IF f[1].kind = "malformed" THEN [kind |-> "list", items |-> default_forest]
    ELSE f[1]

\* whether load_raw_data showed the error box
load_error_shown(f) == f # None /\ f[1].kind = "malformed"

\* json.load builds one dict per node of the document, parents before children
RECURSIVE parse_nodes(_, _)
parse_nodes(st, vals) ==
    IF vals = <<>> THEN st
    ELSE LET v == Head(vals)
             a == st.alloc + 1
             obj == [id |-> v.id, name |-> v.name, memo |-> v.memo, pos |-> v.pos,
                     children |-> <<>>]
             kids == parse_nodes([h |-> st.h @@ (a :> obj), alloc |-> a, out |-> <<>>],
                                 v.children)
             h1 == [kids.h EXCEPT ![a].children = kids.out]
         IN  parse_nodes([h |-> h1, alloc |-> kids.alloc, out |-> Append(st.out, a)],
                         Tail(vals))

\* TreeModel.ensure_ids over the node list s
RECURSIVE ensure_ids(_, _)
ensure_ids(m, s) ==
    IF s = <<>> THEN m
    ELSE LET a == Head(s)
             m1 == IF m.nodes[a].id = None
                   THEN [m EXCEPT !.nodes[a].id = Some(IdStr(m.next_id)),
                                  !.next_id = @ + 1]
                   ELSE LET num == IdInt(m.nodes[a].id[1])
                        IN  IF num >= m.next_id
                            THEN [m EXCEPT !.next_id = num + 1]
                            ELSE m
             m2 == ensure_ids(m1, m1.nodes[a].children)
         IN  ensure_ids(m2, Tail(s))

\* TreeModel.__init__ on the file f
TreeModel_init(f) ==
    LET data == load_raw_data(f)
        is_dict == data.kind = "dict"
        forest == IF is_dict THEN data.tree_data
                  ELSE IF data.kind = "list" THEN data.items
                  ELSE default_forest
        parsed == parse_nodes([h |-> <<>>, alloc |-> 0, out |-> <<>>], forest)
        m0 == [nodes |-> parsed.h, tree_data |-> parsed.out,
               extra_edges |-> IF is_dict THEN data.extra_edges ELSE <<>>,
               next_id |-> InitialNextId, undo_stack |-> <<>>, redo_stack |-> <<>>,
               alloc |-> parsed.alloc]
    IN  ensure_ids(m0, m0.tree_data)

RECURSIVE find_by_id(_, _, _)
find_by_id(h, s, target_id) ==
    IF s = <<>> THEN NoNode
    ELSE LET a == Head(s)
         IN  IF h[a].id = Some(target_id) THEN a
             ELSE LET result == find_by_id(h, h[a].children, target_id)
                  IN  IF result # NoNode THEN result
                      ELSE find_by_id(h, Tail(s), target_id)

get_node_by_id(m, target_id) == find_by_id(m.nodes, m.tree_data, target_id)

RECURSIVE parent_scan(_, _, _, _)
parent_scan(h, a, target, i) ==
    IF i > Len(h[a].children) THEN NoNode
    ELSE LET child == h[a].children[i]
         IN  IF child = target THEN a
             ELSE LET p == parent_scan(h, child, target, 1)
                  IN  IF p # NoNode THEN p ELSE parent_scan(h, a, target, i + 1)

get_parent_recursive(h, a, target) == parent_scan(h, a, target, 1)

RECURSIVE get_parent_in_forest(_, _, _)
get_parent_in_forest(h, forest, target) ==
    IF forest = <<>> THEN NoNode
    ELSE IF Head(forest) = target THEN NoNode
    ELSE LET p == get_parent_recursive(h, Head(forest), target)
         IN  IF p # NoNode THEN p ELSE get_parent_in_forest(h, Tail(forest), target)

get_parent(m, target) == get_parent_in_forest(m.nodes, m.tree_data, target)

\* ------------------------------------------------------------- TreeCanvas
\* draw_tree / refresh thread a drawing state: the heap (draw_tree stores the
\* computed position in a node that has none), the ids entered in
\* canvas_node_map, and ok = FALSE once node['id'] raised KeyError, which
\* aborts the rest of the redraw.
RECURSIVE draw_tree(_, _, _, _), draw_children(_, _, _, _, _)
draw_tree(st, a, x, y) ==
    IF ~st.ok THEN st
    ELSE LET h1 == IF st.h[a].pos = None
                   THEN [st.h EXCEPT ![a].pos = <<x, y>>]
                   ELSE st.h
         IN  IF h1[a].id = None
             THEN [st EXCEPT !.h = h1, !.ok = FALSE]
             ELSE LET n == Len(h1[a].children)
                      cur == h1[a].pos
                      st1 == [st EXCEPT !.h = h1,
                                        !.drawn = @ \cup {h1[a].id[1]}]
                  IN  IF n = 0 THEN st1
                      ELSE draw_children(st1, a, 1,
                                         cur[1] - ((n - 1) * BaseWidth) \div 2,
                                         cur[2] + ChildDy)

draw_children(st, a, i, start_x_child, child_y) ==
    IF ~st.ok \/ i > Len(st.h[a].children) THEN st
    ELSE LET child == st.h[a].children[i]
             h1 == IF st.h[child].pos = None
                   THEN [st.h EXCEPT ![child].pos = <<start_x_child, child_y>>]
                   ELSE st.h
             st1 == draw_tree([st EXCEPT !.h = h1], child, h1[child].pos[1], child_y)
         IN  draw_children(st1, a, i + 1, start_x_child + BaseWidth, child_y)

RECURSIVE draw_roots(_, _, _, _)
draw_roots(st, roots, i, start_x) ==
    IF i > Len(roots) THEN st
    ELSE draw_roots(draw_tree(st, roots[i], start_x, RootStartY),
                    roots, i + 1, start_x + RootGap)

\* a redraw that lays every node out afresh
refresh_relayout(m) ==
    draw_roots([h |-> [a \in DOMAIN m.nodes |-> [m.nodes[a] EXCEPT !.pos = None]],
                drawn |-> {}, ok |-> TRUE],
               m.tree_data, 1, RootStartX)

\* TreeCanvas.refresh: result [h, drawn, ok]
refresh(m) ==
    draw_roots([h |-> m.nodes, drawn |-> {}, ok |-> TRUE], m.tree_data, 1, RootStartX)

\* current_scale and the scale factors are fractions in lowest terms: 9 and 11
\* share no factor with 10, so equal fractions are equal pairs
InitialScale == [num |-> 1, den |-> 1]
ZoomIn == [num |-> 11, den |-> 10]
ZoomOut == [num |-> 9, den |-> 10]

times(s, f) == [num |-> s.num * f.num, den |-> s.den * f.den]

\* the events bound to zoom: a mouse wheel event carries delta, a Button-4 or
\* Button-5 event carries num
ZoomEvents ==
    {[delta |-> Some(d), num |-> 0] : d \in {120, -120}}
    \cup {[delta |-> None, num |-> n] : n \in {4, 5}}

\* the scale factor zoom picks, None where it returns at once
scale_factor(event) ==
    IF event.delta # None
    THEN IF event.delta[1] > 0 THEN Some(ZoomIn) ELSE Some(ZoomOut)
    ELSE IF event.num = 4 THEN Some(ZoomIn)
    ELSE IF event.num = 5 THEN Some(ZoomOut)
    ELSE None

RECURSIVE is_descendant(_, _, _)
is_descendant(h, parent, candidate) ==
    \/ parent = candidate
    \/ \E i \in 1..Len(h[parent].children) :
           is_descendant(h, h[parent].children[i], candidate)

\* ------------------------------------------------------- TreeViewPanel
\* TreeViewPanel.refresh: the nodes populate_treeview maps to treeview items
panel_refresh(m) == Reach(m.nodes, m.tree_data)

\* ------------------------------------------------------- state update
\* the model fields after a handler; dicts no list reaches any more are dropped
SetModel(m) ==
    /\ nodes' = Restrict(m.nodes, Reach(m.nodes, m.tree_data))
    /\ tree_data' = m.tree_data
    /\ extra_edges' = m.extra_edges
    /\ next_id' = m.next_id
    /\ undo_stack' = m.undo_stack
    /\ redo_stack' = m.redo_stack
    /\ alloc' = m.alloc

ModelUnchanged ==
    UNCHANGED <<nodes, tree_data, extra_edges, next_id, undo_stack, redo_stack, alloc>>

Idle == drag_data.node = NoNode
IdleDrag == [node |-> NoNode, start |-> <<0, 0>>, dragging |-> FALSE]

\* a document an earlier session saved: the roots Root(1), with the child A(2),
\* and A(3), and the extra edges (3, 2) and (1, 3)
SavedDoc ==
    [kind |-> "dict",
     tree_data |->
        <<[id |-> Some("1"), name |-> RootName, memo |-> "", pos |-> <<100, 50>>,
           children |->
             <<[id |-> Some("2"), name |-> "A", memo |-> "", pos |-> <<100, 130>>,
                children |-> <<>>]>>],
          [id |-> Some("3"), name |-> "A", memo |-> "", pos |-> <<250, 50>>,
           children |-> <<>>]>>,
     extra_edges |-> << <<"3", "2">>, <<"1", "3">> >>]

\* TreeEditorApp.__init__ on the file f: the model is built, then both views draw
InitFrom(f) ==
    LET m0 == TreeModel_init(f)
        r == refresh(m0)
    IN  /\ nodes = r.h
        /\ tree_data = m0.tree_data
        /\ extra_edges = m0.extra_edges
        /\ next_id = m0.next_id
        /\ undo_stack = <<>>
        /\ redo_stack = <<>>
        /\ alloc = m0.alloc
        /\ file = f
        /\ canvas_node_map = r.drawn
        /\ drag_data = IdleDrag
        /\ pending = None
        /\ popup_node = NoNode
        /\ treeview_node_map = panel_refresh(m0)
        /\ selection = NoNode
        /\ current_scale = InitialScale
        /\ last = IF load_error_shown(f) THEN "init_error" ELSE "init"

\* the first start, with no tree_data.json
InitDefault == InitFrom(None)

\* a start on the saved document
InitSaved == InitFrom(Some(SavedDoc))

Init == InitDefault \/ InitSaved

\* documents written by hand or by other tools: nodes with and without ids, as
\* two roots, a root with a child, a root with two children and a chain
LoadIds == {None, Some("1"), Some("2")}

Leaf(idopt) == [id |-> idopt, name |-> "A", memo |-> "", pos |-> None, children |-> <<>>]

Parent(idopt, kids) == [Leaf(idopt) EXCEPT !.children = kids]

\* the id entries of a document, in document order
RECURSIVE IdsOf(_)
IdsOf(forest) ==
    IF forest = <<>> THEN <<>>
    ELSE <<Head(forest).id>> \o IdsOf(Head(forest).children) \o IdsOf(Tail(forest))

\* no id is written on two nodes of the document
DistinctIds(forest) ==
    LET ids == IdsOf(forest)
    IN  \A i \in 1..Len(ids), j \in 1..Len(ids) :
            (i # j /\ ids[i] # None) => ids[i] # ids[j]

AllForests ==
    {<<Leaf(i)>> : i \in LoadIds}
    \cup {<<Leaf(i), Leaf(j)>> : i \in LoadIds, j \in LoadIds}
    \cup {<<Parent(i, <<Leaf(j)>>)>> : i \in LoadIds, j \in LoadIds}
    \cup {<<Parent(i, <<Leaf(j), Leaf(k)>>)>> : i \in LoadIds, j \in LoadIds, k \in LoadIds}
    \cup {<<Parent(i, <<Parent(j, <<Leaf(k)>>)>>)>> : i \in LoadIds, j \in LoadIds, k \in LoadIds}

LoadForests == {forest \in AllForests : DistinctIds(forest)}

\* the files of the legacy format: a bare array of nodes
LegacyFiles == {Some([kind |-> "list", items |-> forest]) : forest \in LoadForests}

\* the files a start can find
LoadFiles ==
    {None, Some([kind |-> "malformed"]), Some([kind |-> "other"])}
    \cup LegacyFiles
    \cup {Some([kind |-> "dict", tree_data |-> forest, extra_edges |-> <<>>]) :
              forest \in LoadForests}

InitLoad == \E f \in LoadFiles : InitFrom(f)

InitLegacy == \E f \in LegacyFiles : InitFrom(f)

\* ---------------------------------------------- canvas context-menu commands
\* TreeCanvas.rename_node, on the node the right-clicked item maps to
rename_node(id, new_name) ==
    /\ UNCHANGED current_scale
    /\ Idle /\ id \in canvas_node_map
    /\ LET node == get_node_by_id(Model, id)
       IN  /\ node # NoNode
           /\ IF new_name = ""
              THEN /\ ModelUnchanged
                   /\ UNCHANGED <<file, canvas_node_map>>
                   /\ last' = "rename_cancel"
              ELSE
                   /\ LET m1 == push_undo(Model)
                          m2 == [m1 EXCEPT !.nodes[node].name = new_name]
                          r == refresh(m2)
                      IN  /\ SetModel([m2 EXCEPT !.nodes = r.h])
                          /\ file' = save_tree(m2)
                          /\ canvas_node_map' = r.drawn
                   /\ last' = "rename"
    /\ UNCHANGED <<drag_data, pending, popup_node, treeview_node_map, selection>>

\* a delete that leaves the node with its owner
detach_nothing(m, node) == m

\* the owner-detaching statements shared by delete_node and the trash release
detach(m, node) ==
    LET parent == get_parent(m, node)
    IN  IF parent # NoNode
        THEN [m EXCEPT !.nodes[parent].children = RemoveFirst(@, node)]
        ELSE [m EXCEPT !.tree_data = RemoveFirst(@, node)]

\* the overlay filter of delete_node
drop_edges_of(edges, id) ==
    SelectSeq(edges, LAMBDA e : e[1] # id /\ e[2] # id)

\* TreeCanvas.delete_node
delete_node(id) ==
    /\ UNCHANGED current_scale
    /\ Idle /\ id \in canvas_node_map
    /\ LET node == get_node_by_id(Model, id)
       IN  /\ node # NoNode
           /\ LET m1 == push_undo(Model)
                  m2 == detach(m1, node)
                  m3 == [m2 EXCEPT !.extra_edges = drop_edges_of(@, id)]
                  r == refresh(m3)
              IN  /\ SetModel([m3 EXCEPT !.nodes = r.h])
                  /\ file' = save_tree(m3)
                  /\ canvas_node_map' = r.drawn
    /\ last' = "delete_node"
    /\ UNCHANGED <<drag_data, pending, popup_node, treeview_node_map, selection>>

\* a node creation that does not advance next_id
create_node_same_id(m, new_name) ==
    [m EXCEPT !.nodes = @ @@ ((m.alloc + 1) :> new_node_dict(new_name, Some(IdStr(m.next_id)))),
              !.alloc = @ + 1]

\* the node creation shared by add_child_node and TreeViewPanel.add_node
create_node(m, new_name) ==
    [m EXCEPT !.nodes = @ @@ ((m.alloc + 1) :> new_node_dict(new_name, Some(IdStr(m.next_id)))),
              !.alloc = @ + 1,
              !.next_id = @ + 1]

\* TreeCanvas.add_child_node
add_child_node(id, new_name) ==
    /\ UNCHANGED current_scale
    /\ Idle /\ id \in canvas_node_map
    /\ LET node == get_node_by_id(Model, id)
       IN  /\ node # NoNode
           /\ IF new_name = ""
              THEN /\ ModelUnchanged
                   /\ UNCHANGED <<file, canvas_node_map>>
                   /\ last' = "add_child_cancel"
              ELSE
                   /\ LET m1 == push_undo(Model)
                          m2 == create_node(m1, new_name)
                          m3 == [m2 EXCEPT !.nodes[node].children = Append(@, m2.alloc)]
                          r == refresh(m3)
                      IN  /\ SetModel([m3 EXCEPT !.nodes = r.h])
                          /\ file' = save_tree(m3)
                          /\ canvas_node_map' = r.drawn
                   /\ last' = "add_child"
    /\ UNCHANGED <<drag_data, pending, popup_node, treeview_node_map, selection>>

\* TreeCanvas.start_additional_parent
start_additional_parent(id) ==
    /\ UNCHANGED current_scale
    /\ Idle /\ id \in canvas_node_map
    /\ get_node_by_id(Model, id) # NoNode
    /\ pending' = Some(id)
    /\ UNCHANGED last
    /\ ModelUnchanged
    /\ UNCHANGED <<file, canvas_node_map, drag_data, popup_node, treeview_node_map,
                   selection>>

\* the overlay filter of delete_extra_parent
drop_edge(edges, parent_id, child_id) ==
    SelectSeq(edges, LAMBDA e : ~(e[1] = parent_id /\ e[2] = child_id))

\* TreeCanvas.delete_extra_parent: parent_id is the only extra parent, or the
\* one picked in the listbox; confirm is the answer to askyesno
delete_extra_parent(child_id, parent_id, confirm) ==
    /\ UNCHANGED current_scale
    /\ Idle /\ child_id \in canvas_node_map
    /\ get_node_by_id(Model, child_id) # NoNode
    /\ \E k \in 1..Len(extra_edges) :
           extra_edges[k][2] = child_id /\ extra_edges[k][1] = parent_id
    \* parent_node['name'] raises TypeError when the parent id names no node
    /\ get_node_by_id(Model, parent_id) # NoNode
    /\ IF confirm
       THEN
            /\ LET m1 == push_undo(Model)
                   m2 == [m1 EXCEPT !.extra_edges = drop_edge(@, parent_id, child_id)]
                   r == refresh(m2)
               IN  /\ SetModel([m2 EXCEPT !.nodes = r.h])
                   /\ file' = save_tree(m2)
                   /\ canvas_node_map' = r.drawn
            /\ last' = "delete_extra_parent"
       ELSE /\ ModelUnchanged
            /\ UNCHANGED <<file, canvas_node_map>>
            /\ last' = "delete_extra_parent_cancel"
    /\ UNCHANGED <<drag_data, pending, popup_node, treeview_node_map, selection>>

\* ------------------------------------------------------- pointer gestures
\* a duplicate test that never finds the edge
edge_exists_never(edges, parent_id, child_id) == FALSE

\* the duplicate test of the pending-link block
edge_exists(edges, parent_id, child_id) ==
    \E k \in 1..Len(edges) : edges[k][1] = parent_id /\ edges[k][2] = child_id

\* a turned-down link that takes a snapshot
reject_link_pushed(m) == push_undo(m)

\* the two branches of the pending-link block that turn the link down: a
\* message box and no statement on the model
reject_link(m) == m

\* the pending-link block that opens on_node_press and on_canvas_press, when
\* find_closest returned the node item of parent_id
link_to(parent_id) ==
    LET child_id == pending[1]
    IN  /\ IF parent_id = child_id
           THEN /\ LET m1 == reject_link(Model)
                       r == refresh(m1)
                   IN  /\ SetModel([m1 EXCEPT !.nodes = r.h])
                       /\ canvas_node_map' = r.drawn
                /\ UNCHANGED file
                /\ last' = "link_self"
           ELSE IF edge_exists(extra_edges, parent_id, child_id)
           THEN /\ LET m1 == reject_link(Model)
                       r == refresh(m1)
                   IN  /\ SetModel([m1 EXCEPT !.nodes = r.h])
                       /\ canvas_node_map' = r.drawn
                /\ UNCHANGED file
                /\ last' = "link_duplicate"
           ELSE
                /\ LET m1 == push_undo(Model)
                       m2 == [m1 EXCEPT !.extra_edges = Append(@, <<parent_id, child_id>>)]
                       r == refresh(m2)
                   IN  /\ SetModel([m2 EXCEPT !.nodes = r.h])
                       /\ file' = save_tree(m2)
                       /\ canvas_node_map' = r.drawn
                /\ last' = "link"
        /\ pending' = None

\* a press on the node item of id; the pointer is on the node's anchor point.
\* closest is what find_closest returns: the id of a node item, or "" for a
\* "+" or arrow item
on_node_press(id, closest) ==
    /\ UNCHANGED current_scale
    /\ Idle /\ id \in canvas_node_map
    /\ IF pending # None /\ closest \in canvas_node_map
       THEN /\ link_to(closest)
            /\ UNCHANGED drag_data
       ELSE LET node == get_node_by_id(Model, id)
            IN  /\ node # NoNode
                /\ drag_data' = [node |-> node, start |-> nodes[node].pos, dragging |-> FALSE]
                /\ UNCHANGED last
                /\ ModelUnchanged
                /\ UNCHANGED <<file, canvas_node_map, pending>>
    /\ UNCHANGED <<popup_node, treeview_node_map, selection>>

\* a press that hits no node item (empty canvas, a "+" or an arrow)
on_canvas_press(closest) ==
    /\ UNCHANGED current_scale
    /\ Idle
    /\ IF pending # None /\ closest \in canvas_node_map
       THEN link_to(closest)
       ELSE /\ UNCHANGED last
            /\ ModelUnchanged
            /\ UNCHANGED <<file, canvas_node_map, pending>>
    /\ UNCHANGED <<drag_data, popup_node, treeview_node_map, selection>>

\* TreeCanvas.zoom: the canvas items are scaled about the pointer, the model
\* is not touched
zoom(event) ==
    /\ IF scale_factor(event) = None
       THEN UNCHANGED current_scale
       ELSE current_scale' = times(current_scale, scale_factor(event)[1])
    /\ ModelUnchanged
    /\ UNCHANGED <<file, canvas_node_map, drag_data, pending, popup_node,
                   treeview_node_map, selection, last>>

\* TreeCanvas.on_plus_click: a press on the "+" item of the node of id.  The
\* on_canvas_press the same press runs next finds the "+" item closest, which
\* is no node item, and an item tagged "plus" under the pointer: it completes
\* no link and starts no pan
on_plus_click(id) ==
    /\ UNCHANGED current_scale
    /\ Idle /\ id \in canvas_node_map
    /\ LET node == get_node_by_id(Model, id)
       IN  /\ node # NoNode
           /\ popup_node' = node
    /\ UNCHANGED last
    /\ ModelUnchanged
    /\ UNCHANGED <<file, canvas_node_map, drag_data, pending, treeview_node_map,
                   selection>>

\* a threshold every move exceeds
beyond_threshold_any(dx, dy) == TRUE

\* math.sqrt(dx*dx + dy*dy) > 5
beyond_threshold(dx, dy) == dx * dx + dy * dy > DragThreshold * DragThreshold

\* a move that carries the dragged node's descendants along
move_subtree(h, node, dx, dy) ==
    LET S == Closure(h, {node}) \cap DOMAIN h
    IN  [a \in DOMAIN h |->
            IF a \in S /\ h[a].pos # None
            THEN [h[a] EXCEPT !.pos = <<h[a].pos[1] + dx, h[a].pos[2] + dy>>]
            ELSE h[a]]

\* the two assignments of on_node_motion to the dragged node's x and y
move_node(h, node, dx, dy) ==
    LET old == IF h[node].pos = None THEN <<0, 0>> ELSE h[node].pos
    IN  [h EXCEPT ![node].pos = <<old[1] + dx, old[2] + dy>>]

\* TreeCanvas.on_node_motion, pointer now at p
on_node_motion(p) ==
    /\ UNCHANGED current_scale
    /\ drag_data.node # NoNode
    /\ LET dx == p[1] - drag_data.start[1]
           dy == p[2] - drag_data.start[2]
           node == drag_data.node
       IN  IF beyond_threshold(dx, dy)
           THEN /\ drag_data' = [drag_data EXCEPT !.dragging = TRUE, !.start = p]
                /\ nodes' = move_node(nodes, node, dx, dy)
                /\ UNCHANGED last
           ELSE /\ UNCHANGED <<drag_data, nodes>>
                /\ UNCHANGED last
    /\ UNCHANGED <<tree_data, extra_edges, next_id, undo_stack, redo_stack, alloc,
                   file, canvas_node_map, pending, popup_node, treeview_node_map,
                   selection>>

\* the reparent target on_node_release picks among the overlapping items
RECURSIVE pick_target(_, _, _)
pick_target(m, overlapping, dragged) ==
    IF overlapping = <<>> THEN NoNode
    ELSE LET candidate == get_node_by_id(m, Head(overlapping))
         IN  IF candidate # dragged /\ ~is_descendant(m.nodes, dragged, candidate)
             THEN candidate
             ELSE pick_target(m, Tail(overlapping), dragged)

\* the statements of the reparent branch after push_undo
reparent(m, node, target_node) ==
    LET original_parent == get_parent(m, node)
        m1 == IF original_parent # NoNode
              THEN [m EXCEPT !.nodes[original_parent].children = RemoveFirst(@, node)]
              ELSE m
    IN  [m1 EXCEPT !.nodes[target_node].children = Append(@, node)]

\* a move commit that takes a snapshot
move_commit_pushed(m) == push_undo(m)

\* the last branch of a dragging release: the model is saved as it stands
move_commit(m) == m

\* TreeCanvas.on_node_release. over_trash is trash_zone.is_over; overlapping is
\* the ids of the node items find_overlapping returns, in its order
on_node_release(over_trash, overlapping) ==
    /\ UNCHANGED current_scale
    /\ drag_data.node # NoNode
    /\ LET node == drag_data.node
       IN  IF drag_data.dragging /\ over_trash
           THEN
                /\ LET m1 == push_undo(Model)
                       m2 == detach(m1, node)
                       r == refresh(m2)
                   IN  /\ SetModel([m2 EXCEPT !.nodes = r.h])
                       /\ file' = save_tree(m2)
                       /\ canvas_node_map' = r.drawn
                /\ last' = "trash"
                /\ UNCHANGED popup_node
           ELSE IF drag_data.dragging
           THEN LET target_node == pick_target(Model, overlapping, node)
                IN  IF target_node # NoNode
                    THEN
                         /\ LET m1 == push_undo(Model)
                                m2 == reparent(m1, node, target_node)
                                r == refresh(m2)
                            IN  /\ SetModel([m2 EXCEPT !.nodes = r.h])
                                /\ file' = save_tree(m2)
                                /\ canvas_node_map' = r.drawn
                         /\ last' = "reparent"
                         /\ UNCHANGED popup_node
                    ELSE /\ SetModel(move_commit(Model))
                         /\ file' = save_tree(move_commit(Model))
                         /\ last' = IF overlapping = <<>> THEN "move_commit"
                                    ELSE "reparent_rejected"
                         /\ UNCHANGED <<canvas_node_map, popup_node>>
           ELSE /\ popup_node' = node
                /\ UNCHANGED last
                /\ ModelUnchanged
                /\ UNCHANGED <<file, canvas_node_map>>
    /\ drag_data' = IdleDrag
    /\ UNCHANGED <<pending, treeview_node_map, selection>>

\* the statements of both save_memo handlers after push_undo: a node dict the
\* forest no longer reaches takes the text and nothing shows it
set_memo(m, node, text) ==
    IF node \in DOMAIN m.nodes THEN [m EXCEPT !.nodes[node].memo = text] ELSE m

\* open_memo_popup.save_memo: the popup's save button
popup_save_memo(text) ==
    /\ UNCHANGED current_scale
    /\ Idle /\ popup_node # NoNode
    /\ LET m1 == push_undo(Model)
           m2 == set_memo(m1, popup_node, text)
       IN  /\ SetModel(m2)
           /\ file' = save_tree(m2)
    /\ last' = "popup_save_memo"
    /\ UNCHANGED <<canvas_node_map, drag_data, pending, popup_node, treeview_node_map,
                   selection>>

\* ------------------------------------------------------- TreeViewPanel
\* the user selects a treeview item (on_treeview_select only loads memo_text)
treeview_select(item) ==
    /\ UNCHANGED current_scale
    /\ Idle /\ item \in treeview_node_map /\ selection # item
    /\ selection' = item
    /\ UNCHANGED last
    /\ ModelUnchanged
    /\ UNCHANGED <<file, canvas_node_map, drag_data, pending, popup_node,
                   treeview_node_map>>

\* TreeViewPanel.save_memo
panel_save_memo(text) ==
    /\ UNCHANGED current_scale
    /\ Idle
    /\ IF selection # NoNode
       THEN
            /\ LET m1 == push_undo(Model)
                   m2 == set_memo(m1, selection, text)
               IN  /\ SetModel(m2)
                   /\ file' = save_tree(m2)
            /\ last' = "panel_save_memo"
       ELSE /\ ModelUnchanged
            /\ UNCHANGED file
            /\ UNCHANGED last
    /\ UNCHANGED <<canvas_node_map, drag_data, pending, popup_node, treeview_node_map,
                   selection>>

\* the attachment statements of TreeViewPanel.add_node
attach_new(m, selected) ==
    IF selected # NoNode
    THEN IF selected \in DOMAIN m.nodes /\ selected # m.alloc
         THEN [m EXCEPT !.nodes[selected].children = Append(@, m.alloc)]
         ELSE m
    ELSE [m EXCEPT !.tree_data = Append(@, m.alloc)]

\* TreeViewPanel.add_node
add_node(new_name) ==
    /\ UNCHANGED current_scale
    /\ Idle
    /\ LET m1 == push_undo(Model)
       IN  IF new_name = ""
           THEN /\ SetModel(m1)
                /\ UNCHANGED <<file, canvas_node_map, treeview_node_map, selection>>
                /\ last' = "add_node_cancel"
           ELSE LET m2 == create_node(m1, new_name)
                       m3 == attach_new(m2, selection)
                       r == refresh(m3)
                IN  /\ SetModel([m3 EXCEPT !.nodes = r.h])
                    /\ file' = save_tree(m3)
                    /\ treeview_node_map' = panel_refresh(m3)
                    /\ selection' = NoNode
                    /\ canvas_node_map' = r.drawn
                    /\ last' = "add_node"
    /\ UNCHANGED <<drag_data, pending, popup_node>>

\* TreeViewPanel.reset_tree, confirm is the answer to askyesno
reset_tree(confirm) ==
    /\ UNCHANGED current_scale
    /\ Idle
    /\ IF confirm
       THEN
            /\ LET m1 == push_undo(Model)
                   m2 == [m1 EXCEPT !.nodes = ((m1.alloc + 1) :> new_node_dict(RootName, None)),
                                    !.alloc = @ + 1,
                                    !.tree_data = <<m1.alloc + 1>>,
                                    !.extra_edges = <<>>]
                   r == refresh(m2)
               IN  /\ SetModel([m2 EXCEPT !.nodes = r.h])
                   /\ file' = save_tree(m2)
                   /\ treeview_node_map' = panel_refresh(m2)
                   /\ selection' = NoNode
                   /\ canvas_node_map' = r.drawn
            /\ popup_node' = IF popup_node = NoNode THEN NoNode ELSE Detached
            /\ last' = "reset_tree"
       ELSE /\ ModelUnchanged
            /\ UNCHANGED <<file, canvas_node_map, treeview_node_map, selection, popup_node>>
            /\ last' = "reset_tree_cancel"
    /\ UNCHANGED <<drag_data, pending>>

\* ------------------------------------------------------- TreeEditorApp
\* TreeEditorApp.undo: TreeModel.undo and, when it returned True, both views
\* redraw
app_undo ==
    /\ UNCHANGED current_scale
    /\ Idle
    /\ LET u == undo(Model)
           r == refresh(u.m)
       IN  IF u.ok
           THEN /\ SetModel([u.m EXCEPT !.nodes = r.h])
                /\ canvas_node_map' = r.drawn
                /\ treeview_node_map' =
                       IF r.ok THEN panel_refresh(u.m)
                       ELSE IF treeview_node_map = {} THEN {} ELSE {Detached}
                /\ selection' = IF r.ok \/ selection = NoNode THEN NoNode ELSE Detached
                /\ popup_node' = IF popup_node = NoNode THEN NoNode ELSE Detached
                /\ last' = "undo"
           ELSE /\ SetModel(u.m)
                /\ UNCHANGED <<canvas_node_map, treeview_node_map, selection, popup_node>>
                /\ last' = "undo_empty"
    /\ UNCHANGED <<file, drag_data, pending>>

\* TreeEditorApp.redo
app_redo ==
    /\ UNCHANGED current_scale
    /\ Idle
    /\ LET u == redo(Model)
           r == refresh(u.m)
       IN  IF u.ok
           THEN /\ SetModel([u.m EXCEPT !.nodes = r.h])
                /\ canvas_node_map' = r.drawn
                /\ treeview_node_map' =
                       IF r.ok THEN panel_refresh(u.m)
                       ELSE IF treeview_node_map = {} THEN {} ELSE {Detached}
                /\ selection' = IF r.ok \/ selection = NoNode THEN NoNode ELSE Detached
                /\ popup_node' = IF popup_node = NoNode THEN NoNode ELSE Detached
                /\ last' = "redo"
           ELSE /\ SetModel(u.m)
                /\ UNCHANGED <<canvas_node_map, treeview_node_map, selection, popup_node>>
                /\ last' = "redo_empty"
    /\ UNCHANGED <<file, drag_data, pending>>

Overlaps ==
    {<<>>} \cup {<<a>> : a \in canvas_node_map}
           \cup {s \in canvas_node_map \X canvas_node_map : s[1] # s[2]}

\* ------------------------------------------------------- next-state relations
\* at most one of the panel selection, the memo popup and the pending link is open
OneAtATime ==
    Cardinality({k \in 1..3 : <<selection # NoNode, popup_node # NoNode,
                                pending # None>>[k]}) <= 1

\* the bounds of a check: history depth, node dicts created and, with solo,
\* one interaction at a time
Within(hist, solo) ==
    /\ Len(undo_stack) + Len(redo_stack) <= hist
    /\ alloc <= MaxObjects
    /\ solo => OneAtATime

\* The user's inputs, grouped by the part of the interface they go through.
AddDeleteNext(hist, solo) ==
    \/ \E id \in canvas_node_map, new_name \in Names :
           add_child_node(id, new_name) /\ Within(hist, solo)'
    \/ \E id \in canvas_node_map : delete_node(id) /\ Within(hist, solo)'

RenameNext(hist, solo) ==
    \E id \in canvas_node_map, new_name \in Names :
        rename_node(id, new_name) /\ Within(hist, solo)'

\* the extra-edge commands, and the press that completes or drops a pending link
LinkNext(hist, solo) ==
    \/ \E id \in canvas_node_map : start_additional_parent(id) /\ Within(hist, solo)'
    \/ \E c \in canvas_node_map, p \in canvas_node_map :
           delete_extra_parent(c, p, TRUE) /\ Within(hist, solo)'
    \/ \E id \in canvas_node_map, closest \in canvas_node_map :
           pending # None /\ on_node_press(id, closest) /\ Within(hist, solo)'
    \/ \E closest \in canvas_node_map \cup {""} :
           pending # None /\ on_canvas_press(closest) /\ Within(hist, solo)'

\* press, move, release on a node while no link is pending
DragNext(hist, solo) ==
    \/ \E id \in canvas_node_map : pending = None /\ on_node_press(id, "")
    \/ \E p \in Points \cup {Jitter(drag_data.start)} : on_node_motion(p)
    \/ \E over_trash \in BOOLEAN, overlapping \in Overlaps :
           on_node_release(over_trash, overlapping) /\ Within(hist, solo)'

\* the same where a dragging release ends in the trash or under a new parent
SnapshotDragNext(hist, solo) ==
    \/ \E id \in canvas_node_map : pending = None /\ on_node_press(id, "")
    \/ \E p \in Points \cup {Jitter(drag_data.start)} : on_node_motion(p)
    \/ \E over_trash \in BOOLEAN, overlapping \in Overlaps :
           /\ on_node_release(over_trash, overlapping)
           /\ drag_data.dragging => undo_stack' # undo_stack
           /\ Within(hist, solo)'

\* a drag through several pointer positions
MoveNext(hist, solo) ==
    \/ \E id \in canvas_node_map : pending = None /\ on_node_press(id, "")
    \/ \E p \in MorePoints \cup {Jitter(drag_data.start)} : on_node_motion(p)
    \/ \E over_trash \in BOOLEAN, overlapping \in Overlaps :
           on_node_release(over_trash, overlapping) /\ Within(hist, solo)'

\* the remaining presses: a press that starts a drag while a link stays pending
\* (find_closest returned a "+" or an arrow), and a press on the empty canvas
PressNext ==
    \/ \E id \in canvas_node_map : pending # None /\ on_node_press(id, "")
    \/ \E closest \in canvas_node_map \cup {""} :
           pending = None /\ on_canvas_press(closest)

\* a press on a "+" item
PlusNext ==
    \E id \in canvas_node_map : on_plus_click(id)

PopupNext(hist, solo) ==
    \E text \in MemoInputs : popup_save_memo(text) /\ Within(hist, solo)'

PanelNext(hist, solo) ==
    \/ \E item \in treeview_node_map : treeview_select(item) /\ Within(hist, solo)'
    \/ \E new_name \in Names : add_node(new_name) /\ Within(hist, solo)'

PanelMemoNext(hist, solo) ==
    \E text \in MemoInputs : panel_save_memo(text) /\ Within(hist, solo)'

ResetNext(hist, solo) == reset_tree(TRUE) /\ Within(hist, solo)'

\* the same commands with the dialog cancelled
CancelNext(hist, solo) ==
    \/ \E id \in canvas_node_map : rename_node(id, "")
    \/ \E id \in canvas_node_map : add_child_node(id, "")
    \/ \E c \in canvas_node_map, p \in canvas_node_map : delete_extra_parent(c, p, FALSE)
    \/ add_node("") /\ Within(hist, solo)'
    \/ reset_tree(FALSE)

HistoryNext ==
    \/ app_undo
    \/ app_redo

\* the mouse wheel, up to MaxZoom notches
ZoomNext ==
    \E event \in ZoomEvents : zoom(event) /\ current_scale'.den <= 10 ^ MaxZoom

Next ==
    \/ AddDeleteNext(GestureHist, FALSE)
    \/ RenameNext(GestureHist, FALSE)
    \/ LinkNext(GestureHist, FALSE)
    \/ DragNext(GestureHist, FALSE)
    \/ PressNext
    \/ PopupNext(GestureHist, FALSE)
    \/ PanelNext(GestureHist, FALSE)
    \/ PanelMemoNext(GestureHist, FALSE)
    \/ ResetNext(GestureHist, FALSE)
    \/ CancelNext(GestureHist, FALSE)
    \/ HistoryNext
    \/ ZoomNext
    \/ PlusNext

Spec == Init /\ [][Next]_vars

\* adding and deleting nodes from the canvas and the side panel
TreeNext ==
    \/ AddDeleteNext(MaxHist, FALSE)
    \/ PanelNext(MaxHist, FALSE)
    \/ HistoryNext

SpecTree == Init /\ [][TreeNext]_vars

\* the same with the reset command
ResetTreeNext ==
    \/ AddDeleteNext(MaxHist, FALSE)
    \/ PanelNext(MaxHist, FALSE)
    \/ ResetNext(MaxHist, FALSE)
    \/ HistoryNext

SpecReset == Init /\ [][ResetTreeNext]_vars

\* the extra-edge overlay of the saved document
OverlayNext ==
    \/ \E id \in canvas_node_map : delete_node(id) /\ Within(MaxHist, FALSE)'
    \/ LinkNext(MaxHist, FALSE)
    \/ HistoryNext

SpecLink == InitSaved /\ [][OverlayNext]_vars

\* the overlay with added nodes, from the first start, with a history deep
\* enough for two adds, a link and a delete
ScenarioNext ==
    \/ AddDeleteNext(ScenarioHist, FALSE)
    \/ LinkNext(ScenarioHist, FALSE)
    \/ HistoryNext

SpecScenario == InitDefault /\ [][ScenarioNext]_vars

\* the drag gestures on the saved document
DragTreeNext ==
    \/ DragNext(GestureHist, FALSE)
    \/ HistoryNext

SpecDrag == InitSaved /\ [][DragTreeNext]_vars

\* reparenting and deleting on the saved document
ReparentNext ==
    \/ \E id \in canvas_node_map : delete_node(id) /\ Within(MaxHist, FALSE)'
    \/ SnapshotDragNext(MaxHist, FALSE)
    \/ HistoryNext

SpecReparent == InitSaved /\ [][ReparentNext]_vars

\* a start on any file, then adds, deletes, undo and redo
LoadNext ==
    \/ AddDeleteNext(GestureHist, FALSE)
    \/ HistoryNext

SpecLoad == InitLoad /\ [][LoadNext]_vars

\* the same on the files of the legacy format
SpecLegacy == InitLegacy /\ [][LoadNext]_vars

\* growing, pruning and rearranging a tree from the first start, up to MaxHist
\* commands
LayoutNext ==
    \/ AddDeleteNext(MaxHist, FALSE)
    \/ DragNext(MaxHist, FALSE)

SpecLayout == InitDefault /\ [][LayoutNext]_vars

\* zooming while nodes are added and deleted
ZoomTreeNext ==
    \/ ZoomNext
    \/ AddDeleteNext(GestureHist, FALSE)
    \/ HistoryNext

SpecZoom == Init /\ [][ZoomTreeNext]_vars

\* the presses that can follow the link command on the saved document
PendingNext ==
    \/ LinkNext(GestureHist, FALSE)
    \/ PlusNext
    \/ HistoryNext

SpecPending == InitSaved /\ [][PendingNext]_vars

\* longer drags on the saved document, with up to MoveHist drops in the trash
\* or on another node
SpecMove == InitSaved /\ [][MoveNext(MoveHist, FALSE)]_vars

\* every command that takes a snapshot, one interaction at a time
EditNext ==
    \/ AddDeleteNext(GestureHist, TRUE)
    \/ RenameNext(GestureHist, TRUE)
    \/ LinkNext(GestureHist, TRUE)
    \/ SnapshotDragNext(GestureHist, TRUE)
    \/ PopupNext(GestureHist, TRUE)
    \/ PanelNext(GestureHist, TRUE)
    \/ PanelMemoNext(GestureHist, TRUE)
    \/ HistoryNext

\* the overlay of the saved document, with the dialogs answered and cancelled
DialogNext ==
    \/ \E id \in canvas_node_map : delete_node(id) /\ Within(MaxHist, FALSE)'
    \/ LinkNext(MaxHist, FALSE)
    \/ CancelNext(MaxHist, FALSE)
    \/ HistoryNext

SpecCancel == InitSaved /\ [][DialogNext]_vars

SpecEdit == Init /\ [][EditNext]_vars

\* ------------------------------------------------------- properties
Top(s) == s[Len(s)]

\* the Forest and the overlay of a model or of a snapshot, as nested values
ValueOf(x) ==
    [forest |-> dump_forest(x.nodes, x.tree_data), overlay |-> x.extra_edges]

Current == ValueOf(Model)

\* C1: undo/redo inverse law.  Every step that grows the undo stack (a
\* mutating command's push_undo, or a redo) leaves on top of it the Forest and
\* overlay held just before the step; a successful undo yields the Forest and
\* overlay on top of the undo stack and leaves the state it left on top of the
\* redo stack; a successful redo yields the Forest and overlay on top of the
\* redo stack.  So push_undo(); op(); undo() gives the state before op, and a
\* following redo() the state after op.
C1_UndoRedoInverse ==
    [][ /\ Len(undo_stack') > Len(undo_stack)
            => ValueOf(Top(undo_stack')) = Current
        /\ (app_undo /\ undo_stack # <<>>)
            => /\ Current' = ValueOf(Top(undo_stack))
               /\ ValueOf(Top(redo_stack')) = Current
        /\ (app_redo /\ redo_stack # <<>>)
            => Current' = ValueOf(Top(redo_stack)) ]_vars

\* a command changed the Forest or the overlay, was undone and redone
C1_Witness ==
    /\ last = "redo"
    /\ undo_stack # <<>>
    /\ ValueOf(Top(undo_stack)) # Current

\* the places a node dict stands in: <<0, i>> for tree_data[i], <<p, i>> for the
\* i-th child of p
OwnerSlots(a) ==
    {<<0, i>> : i \in {k \in 1..Len(tree_data) : tree_data[k] = a}}
    \cup UNION {{<<p, i>> : i \in {k \in 1..Len(nodes[p].children) :
                                      nodes[p].children[k] = a}} : p \in DOMAIN nodes}

\* C2: ownership invariant.  Every node of the Forest occupies exactly one owner
\* slot (one place in the root list or in one children list) and is not its
\* own descendant.
C2_Ownership ==
    \A a \in DOMAIN nodes :
        /\ Cardinality(OwnerSlots(a)) = 1
        /\ a \notin Closure(nodes, Range(nodes[a].children))

\* C3: id uniqueness.  Every node of the Forest has an id, the ids of distinct
\* nodes differ, every id is at least the initial counter value and next_id is
\* greater than every id.
C3_IdUniqueness ==
    \A a \in DOMAIN nodes :
        /\ nodes[a].id # None
        /\ IdInt(nodes[a].id[1]) >= InitialNextId
        /\ next_id > IdInt(nodes[a].id[1])
        /\ \A b \in DOMAIN nodes : a # b => nodes[a].id # nodes[b].id

\* after an add-child and an add-root from the first start
C3_Witness ==
    /\ undo_stack # <<>>
    /\ Len(tree_data) = 2
    /\ nodes[tree_data[1]].children # <<>>

\* the root list and every children list
Structure ==
    [roots |-> tree_data, kids |-> [a \in DOMAIN nodes |-> nodes[a].children]]

\* the ids of n and of its descendants
SubtreeIds(n) ==
    {nodes[a].id[1] : a \in Closure(nodes, {n}) \cap DOMAIN nodes}

\* C4: cycle rejection.  A dragging release of node N away from the trash, over
\* the regions of N itself or of descendants of N only, leaves the root list
\* and every children list unchanged and pushes no undo snapshot.
C4_CycleRejection ==
    [][ \A overlapping \in Overlaps :
            ( /\ drag_data.node # NoNode
              /\ drag_data.dragging
              /\ overlapping # <<>>
              /\ Range(overlapping) \subseteq SubtreeIds(drag_data.node)
              /\ on_node_release(FALSE, overlapping) )
            => /\ Structure' = Structure
               /\ undo_stack' = undo_stack
               /\ redo_stack' = redo_stack ]_vars

\* a node with a child was dragged and released over itself or its descendants
C4_Witness ==
    /\ last = "reparent_rejected"
    /\ \E a \in DOMAIN nodes : nodes[a].children # <<>>

\* C5: overlay edge validity.  No extra edge joins an id to itself and no two
\* extra edges are the same (parent id, child id) pair.
C5_OverlayValid ==
    \A i \in 1..Len(extra_edges) :
        /\ extra_edges[i][1] # extra_edges[i][2]
        /\ \A j \in 1..Len(extra_edges) : i # j => extra_edges[i] # extra_edges[j]

\* a pending link onto an edge that exists was just turned down
C5_Witness ==
    /\ last = "link_duplicate"
    /\ extra_edges # <<>>

\* C6: cascade cleanup.  delete_node on the node X of id removes X from the
\* list that owns it, leaves every other list as it was, and removes exactly
\* the overlay edges whose parent id or child id is X's id, the others staying
\* in their order.
C6_CascadeCleanup ==
    [][ \A id \in canvas_node_map :
            delete_node(id) =>
                LET X == get_node_by_id(Model, id)
                    Keep(s) == SelectSeq(s, LAMBDA a : a # X)
                IN  /\ extra_edges' =
                           SelectSeq(extra_edges, LAMBDA e : e[1] # id /\ e[2] # id)
                    /\ tree_data' = Keep(tree_data)
                    /\ X \notin DOMAIN nodes'
                    /\ \A a \in DOMAIN nodes' :
                           a \in DOMAIN nodes /\ nodes'[a].children = Keep(nodes[a].children)
      ]_vars

\* the ids and the nesting of a forest
RECURSIVE shape_of(_, _)
shape_of(h, s) ==
    [i \in 1..Len(s) |-> [id |-> h[s[i]].id, children |-> shape_of(h, h[s[i]].children)]]

View(x) == [forest |-> shape_of(x.nodes, x.tree_data), overlay |-> x.extra_edges]

Tree(id, kids) == [id |-> Some(id), children |-> kids]

\* the states of the scenario: the default document, A added, B added, the
\* extra edge added, A deleted
V0 == [forest |-> <<Tree("1", <<>>)>>, overlay |-> <<>>]
V1 == [forest |-> <<Tree("1", <<Tree("2", <<>>)>>)>>, overlay |-> <<>>]
V2 == [forest |-> <<Tree("1", <<Tree("2", <<>>), Tree("3", <<>>)>>)>>, overlay |-> <<>>]
V3 == [forest |-> <<Tree("1", <<Tree("2", <<>>), Tree("3", <<>>)>>)>>,
       overlay |-> << <<"2", "3">> >>]
V4 == [forest |-> <<Tree("1", <<Tree("3", <<>>)>>)>>, overlay |-> <<>>]

\* the snapshots of the undo stack
Past == [i \in 1..Len(undo_stack) |-> View(undo_stack[i])]

\* C7: the scenario.  The default document is the root of id "1"; the first
\* child added to it gets id "2" and the second id "3"; deleting node "2" when
\* the overlay is the edge ("2", "3") leaves the root with the child "3" alone
\* and an empty overlay; undo after that run gives back both children and the
\* edge, and redo after that undo gives the deletion again.
C7_Scenario ==
    /\ View(Model) = V0 /\ next_id = 2
    /\ [][ /\ (View(Model) = V0 /\ next_id = 2
                  /\ \E n \in Names : add_child_node("1", n))
               => View(Model)' = V1
           /\ (View(Model) = V1 /\ next_id = 3
                  /\ \E n \in Names : add_child_node("1", n))
               => View(Model)' = V2
           /\ (View(Model) = V3 /\ delete_node("2"))
               => View(Model)' = V4
           /\ (View(Model) = V4 /\ Past = <<V0, V1, V2, V3>> /\ redo_stack = <<>>
                  /\ app_undo)
               => View(Model)' = V3
           /\ (View(Model) = V3 /\ Past = <<V0, V1, V2>>
                  /\ Len(redo_stack) = 1 /\ View(Top(redo_stack)) = V4
                  /\ app_redo)
               => View(Model)' = V4 ]_vars

\* the scenario was run to its end: two adds, the link, the delete, undo, redo
C7_Witness ==
    /\ last = "redo"
    /\ Past = <<V0, V1, V2, V3>>
    /\ View(Model) = V4

\* C8: round trip.  The model built from the document save_tree writes holds
\* the same Forest (ids, names, memos, positions, children order) and the same
\* overlay as the model that was saved.
C8_RoundTrip ==
    ValueOf(TreeModel_init(save_tree(Model))) = Current

\* C9: undo on an empty undo stack and redo on an empty redo stack report
\* failure and change neither the Forest, the overlay nor the two stacks.
C9_EmptyHistoryNoOp ==
    [][ /\ (app_undo /\ undo_stack = <<>>)
            => /\ last' = "undo_empty"
               /\ UNCHANGED <<nodes, tree_data, extra_edges, undo_stack, redo_stack>>
        /\ (app_redo /\ redo_stack = <<>>)
            => /\ last' = "redo_empty"
               /\ UNCHANGED <<nodes, tree_data, extra_edges, undo_stack, redo_stack>>
      ]_vars

\* redo was asked for with an empty redo stack and a non-empty undo stack
C9_Witness ==
    /\ last = "redo_empty"
    /\ undo_stack # <<>>

\* C10: history discipline.  A successful undo takes the top entry off the undo
\* stack and appends a snapshot of the current state to the redo stack, whose
\* other entries stay; a successful redo does the same the other way round;
\* every other step that changes a stack appends exactly one snapshot of the
\* current state to the undo stack and empties the redo stack.
C10_HistoryDiscipline ==
    [][ /\ (app_undo /\ undo_stack # <<>>)
            => /\ undo_stack' = SubSeq(undo_stack, 1, Len(undo_stack) - 1)
               /\ redo_stack' = Append(redo_stack, deepcopy(Model))
        /\ (app_redo /\ redo_stack # <<>>)
            => /\ redo_stack' = SubSeq(redo_stack, 1, Len(redo_stack) - 1)
               /\ undo_stack' = Append(undo_stack, deepcopy(Model))
        /\ (~app_undo /\ ~app_redo
                /\ <<undo_stack, redo_stack>>' # <<undo_stack, redo_stack>>)
            => /\ undo_stack' = Append(undo_stack, deepcopy(Model))
               /\ redo_stack' = <<>> ]_vars

\* an undo was taken while the redo stack held an entry, which it kept
C10_Witness ==
    /\ last = "undo"
    /\ Len(redo_stack) = 2

\* C11: a rejected extra-edge creation is a no-op.  A press that completes a
\* pending link on the pending child's own node item, or on the item of a node
\* that is already an extra parent of the pending child, leaves the Forest, the
\* overlay, the undo stack and the redo stack as they were, and the redraw
\* that ends the handler raises nothing.
C11_RejectedLinkNoOp ==
    [][ \A closest \in canvas_node_map :
            ( /\ pending # None
              /\ \/ closest = pending[1]
                 \/ \E k \in 1..Len(extra_edges) :
                        extra_edges[k] = <<closest, pending[1]>>
              /\ \/ \E id \in canvas_node_map : on_node_press(id, closest)
                 \/ on_canvas_press(closest) )
            => /\ Current' = Current
               /\ undo_stack' = undo_stack
               /\ redo_stack' = redo_stack
               /\ refresh(Model).ok ]_vars

\* a link of a node to itself was just turned down, after an earlier command
C11_Witness ==
    /\ last = "link_self"
    /\ pending = None
    /\ undo_stack # <<>>

\* C12: load id assignment.  After a load every node has an id, the ids of
\* distinct nodes differ, and next_id is greater than every numeric id of the
\* Forest, whatever nodes of the document carried an id and in whatever order.
C12_LoadIdAssignment ==
    last \in {"init", "init_error"} =>
        /\ \A a \in DOMAIN nodes :
               /\ nodes[a].id # None
               /\ next_id > IdInt(nodes[a].id[1])
        /\ \A a \in DOMAIN nodes, b \in DOMAIN nodes :
               a # b => nodes[a].id # nodes[b].id

\* C13: load fallback.  A start on a file that is malformed, or that parses to
\* neither an array nor an object with tree_data, reports an error and has the
\* default root of id "1" as its only node, with an empty overlay.
C13_LoadFallback ==
    ( /\ last \in {"init", "init_error"}
      /\ file # None
      /\ file[1].kind \notin {"dict", "list"} )
    => /\ last = "init_error"
       /\ View(Model) = V0
       /\ nodes[tree_data[1]].name = RootName

\* the loaded Forest holds the nodes of the document, nested as in the
\* document, with the ids the document gave
RECURSIVE Holds(_, _)
Holds(doc, forest) ==
    /\ Len(doc) = Len(forest)
    /\ \A i \in 1..Len(doc) :
           /\ doc[i].name = forest[i].name
           /\ doc[i].memo = forest[i].memo
           /\ doc[i].id # None => forest[i].id = doc[i].id
           /\ Holds(doc[i].children, forest[i].children)

\* a forest value without the stored positions
RECURSIVE StripPos(_)
StripPos(forest) ==
    [i \in 1..Len(forest) |->
        [id |-> forest[i].id, name |-> forest[i].name, memo |-> forest[i].memo,
         children |-> StripPos(forest[i].children)]]

LegacyLoaded ==
    (last = "init" /\ file # None /\ file[1].kind = "list")
    => /\ extra_edges = <<>>
       /\ Holds(file[1].items, Current.forest)

\* C14: legacy upgrade.  A start on a bare array of nodes yields that Forest
\* with an empty overlay, and every save writes an object whose tree_data is
\* the Forest (a node created by the saving command has no position yet) and
\* whose extra_edges is the overlay.
C14_LegacyUpgrade ==
    /\ LegacyLoaded
    /\ [][ /\ LegacyLoaded'
           /\ file' # file =>
                  /\ file'[1].kind = "dict"
                  /\ StripPos(file'[1].tree_data) = StripPos(Current'.forest)
                  /\ file'[1].extra_edges = extra_edges' ]_vars

\* a command saved the model after a start on a legacy file
C14_Witness ==
    /\ last = "add_child"
    /\ file # None
    /\ file[1].kind = "dict"

\* C15: sticky layout.  The stored position of a node dict changes only in a
\* drag move of that node, or when undo or redo put a snapshot in place of the
\* Forest; no other step, and so no redraw after siblings were added, removed
\* or moved to another parent, changes a position once it is stored.
C15_StickyLayout ==
    [][ \A a \in DOMAIN nodes \cap DOMAIN nodes' :
            (nodes[a].pos # None /\ nodes'[a].pos # nodes[a].pos)
            => \/ drag_data.node = a /\ \E p \in Points : on_node_motion(p)
               \/ app_undo
               \/ app_redo ]_vars

\* a child was added next to a child that stands where the layout of an only
\* child put it, and not where the layout of two children would
C15_Witness ==
    /\ last = "add_child"
    /\ \E a \in DOMAIN nodes :
           /\ Len(nodes[a].children) = 2
           /\ nodes[nodes[a].children[1]].pos[1] # nodes[a].pos[1] - BaseWidth \div 2

\* C16: zoom notch factors.  A zoom-in notch multiplies the cumulative scale
\* by 1.1 and a zoom-out notch multiplies it by 1/1.1, so that a zoom-out
\* undoes a zoom-in: the scale after a zoom-out notch, times 11/10, is the
\* scale before it.
C16_ZoomNotches ==
    [][ \A event \in ZoomEvents :
            zoom(event) =>
                IF scale_factor(event) = Some(ZoomIn)
                THEN current_scale' = times(current_scale, [num |-> 11, den |-> 10])
                ELSE times(current_scale', [num |-> 11, den |-> 1])
                        = times(current_scale, [num |-> 10, den |-> 1]) ]_vars

\* C17: snapshot before mutation.  Every step other than undo and redo that
\* changes the Forest (the stored positions included) or the overlay pushes
\* one snapshot onto the undo stack, and that snapshot is the Forest and the
\* overlay as they were before the step, so that one undo gives them back.
C17_SnapshotBeforeMutation ==
    [][ (Current' # Current /\ ~app_undo /\ ~app_redo)
            => /\ Len(undo_stack') = Len(undo_stack) + 1
               /\ ValueOf(Top(undo_stack')) = Current ]_vars

\* a list of node dicts without the dict X
Without(list, X) == SelectSeq(list, LAMBDA a : a # X)

\* C18: drag-to-trash is removeNode.  A dragging release of node X over the
\* trash removes X from the list that owns it, leaves every other list as it
\* was, removes exactly the overlay edges whose parent id or child id is X's
\* id, and clears the drag state.
C18_TrashIsRemoveNode ==
    [][ \A overlapping \in Overlaps :
            ( /\ drag_data.node # NoNode
              /\ drag_data.dragging
              /\ on_node_release(TRUE, overlapping) )
            => LET X == drag_data.node
                   id == nodes[X].id[1]
               IN  /\ extra_edges' =
                          SelectSeq(extra_edges, LAMBDA e : e[1] # id /\ e[2] # id)
                   /\ tree_data' = Without(tree_data, X)
                   /\ X \notin DOMAIN nodes'
                   /\ \A a \in DOMAIN nodes' :
                          /\ a \in DOMAIN nodes
                          /\ nodes'[a].children = Without(nodes[a].children, X)
                   /\ drag_data' = IdleDrag ]_vars

\* C19: reparent postcondition.  A dragging release of node N over the region
\* of a node T that is neither N nor a descendant of N takes N out of the
\* list that owns it (the root list when N is a root), makes N the last child
\* of T, leaves every other list and every node dict of N's subtree as it
\* was, and keeps the set of ids of the Forest.
C19_ReparentPostcondition ==
    [][ \A t \in canvas_node_map :
            LET N == drag_data.node
                T == get_node_by_id(Model, t)
            IN  ( /\ N # NoNode
                  /\ drag_data.dragging
                  /\ T \notin Closure(nodes, {N})
                  /\ on_node_release(FALSE, <<t>>) )
                => /\ tree_data' = Without(tree_data, N)
                   /\ DOMAIN nodes' = DOMAIN nodes
                   /\ \A a \in DOMAIN nodes :
                          /\ nodes'[a].children =
                                 IF a = T THEN Append(Without(nodes[a].children, N), N)
                                 ELSE Without(nodes[a].children, N)
                          /\ nodes'[a].id = nodes[a].id
                   /\ \A a \in Closure(nodes, {N}) : nodes'[a] = nodes[a] ]_vars

\* the square of the distance between the points p and q
Dist2(p, q) == (p[1] - q[1]) * (p[1] - q[1]) + (p[2] - q[2]) * (p[2] - q[2])

\* C20: click versus drag.  While a pressed node is not yet dragged, a move
\* makes the gesture Dragging exactly when it takes the pointer more than 5
\* units from the press point, and nothing else makes it Dragging; a release
\* while it is not Dragging opens the memo editor on the pressed node, pushes
\* no undo snapshot, leaves the Forest and the overlay as they were and ends
\* the gesture.
C20_ClickVersusDrag ==
    [][ /\ \A p \in Points \cup {Jitter(drag_data.start)} :
               (drag_data.node # NoNode /\ ~drag_data.dragging /\ on_node_motion(p))
               => (drag_data'.dragging <=> Dist2(p, drag_data.start) > 5 * 5)
        /\ (~drag_data.dragging /\ drag_data'.dragging)
               => \E p \in Points :
                      on_node_motion(p) /\ Dist2(p, drag_data.start) > 5 * 5
        /\ ( /\ drag_data.node # NoNode
             /\ ~drag_data.dragging
             /\ \E over_trash \in BOOLEAN, overlapping \in Overlaps :
                    on_node_release(over_trash, overlapping) )
               => /\ popup_node' = drag_data.node
                  /\ undo_stack' = undo_stack
                  /\ redo_stack' = redo_stack
                  /\ Current' = Current
                  /\ drag_data' = IdleDrag ]_vars

\* a node was pressed and released as a click after an earlier drag was undone
\* and redone: its memo editor is open
C20_Witness ==
    /\ Idle
    /\ popup_node \in DOMAIN nodes
    /\ last = "redo"

\* C21: PendingLink exits on the next press.  While a link is pending for the
\* child C, a press on the node item of T clears the pending link and leaves
\* the overlay as it was or with the edge (T.id, C.id) appended; a press that
\* hits no node item clears the pending link and leaves the Forest and the
\* overlay as they were.
C21_PendingExitsOnPress ==
    [][ pending # None =>
            /\ \A T \in canvas_node_map :
                   on_node_press(T, T) =>
                       /\ pending' = None
                       /\ extra_edges' \in {extra_edges,
                                             Append(extra_edges, <<T, pending[1]>>)}
            /\ \A closest \in canvas_node_map \cup {""} :
                   on_canvas_press(closest) =>
                       /\ pending' = None
                       /\ Current' = Current ]_vars

\* C22: PendingLink priority.  While a link is pending, a press on a node
\* item, on a "+" item or on the canvas records no drag candidate and opens
\* no memo editor.
C22_PendingPriority ==
    [][ ( /\ pending # None
          /\ \/ \E id \in canvas_node_map, closest \in canvas_node_map :
                    on_node_press(id, closest)
             \/ \E closest \in canvas_node_map \cup {""} : on_canvas_press(closest)
             \/ \E id \in canvas_node_map : on_plus_click(id) )
        => /\ drag_data' = drag_data
           /\ popup_node' = popup_node ]_vars

\* C23: drag-move frame.  A move event that leaves node N dragged changes at
\* most the stored position of N, and when it changes it, by the pointer's
\* displacement since the position last applied; every other field of N,
\* every other node dict (N's descendants among them), the root list, the
\* overlay, next_id and both stacks are unchanged.
C23_DragMoveFrame ==
    [][ \A p \in MorePoints \cup {Jitter(drag_data.start)} :
            (drag_data.node # NoNode /\ on_node_motion(p) /\ drag_data'.dragging)
            => LET N == drag_data.node
               IN  /\ \A a \in DOMAIN nodes \ {N} : nodes'[a] = nodes[a]
                   /\ DOMAIN nodes' = DOMAIN nodes
                   /\ [nodes'[N] EXCEPT !.pos = None] = [nodes[N] EXCEPT !.pos = None]
                   /\ nodes'[N].pos # nodes[N].pos
                          => /\ nodes'[N].pos[1] - nodes[N].pos[1] = p[1] - drag_data.start[1]
                             /\ nodes'[N].pos[2] - nodes[N].pos[2] = p[2] - drag_data.start[2]
                   /\ UNCHANGED <<tree_data, extra_edges, next_id, undo_stack, redo_stack>>
      ]_vars

\* the root that has a child is dragged and stands at the second pointer stop
C23_Witness ==
    /\ drag_data.dragging
    /\ nodes[drag_data.node].children # <<>>
    /\ nodes[drag_data.node].pos = <<130, 90>>

\* C24: side-panel mirroring.  After every command on the Forest, from the
\* canvas or from the side panel, and after every undo and redo, the nodes the
\* side panel maps its items to are exactly the nodes of the current Forest.
C24_PanelMirrors ==
    treeview_node_map = Reach(nodes, tree_data)

\* C25: the persisted document tracks memory.  After every step that changes
\* the Forest (stored positions aside) or the overlay, the file holds a
\* document whose tree_data is the Forest and whose extra_edges is the
\* overlay.
C25_FileTracksMemory ==
    [][ ( \/ StripPos(Current'.forest) # StripPos(Current.forest)
          \/ extra_edges' # extra_edges )
        => /\ file' # None
           /\ file'[1].kind = "dict"
           /\ StripPos(file'[1].tree_data) = StripPos(Current'.forest)
           /\ file'[1].extra_edges = extra_edges' ]_vars

\* the ids of the nodes of the current Forest
ForestIds ==
    {nodes[a].id[1] : a \in {b \in Reach(nodes, tree_data) : nodes[b].id # None}}

\* C26: no dangling overlay edges.  In every reachable state both endpoints of
\* every extra edge are ids of nodes of the current Forest.
C26_NoDanglingEdges ==
    \A i \in 1..Len(extra_edges) :
        /\ extra_edges[i][1] \in ForestIds
        /\ extra_edges[i][2] \in ForestIds

\* C27: a cancelled command is a no-op.  A cancelled add-node (from the canvas
\* or from the side panel), a cancelled rename and a declined extra-edge
\* removal leave the Forest, the overlay, the undo stack and the redo stack
\* unchanged.
C27_CancelIsNoOp ==
    [][ ( \/ \E id \in canvas_node_map : rename_node(id, "")
          \/ \E id \in canvas_node_map : add_child_node(id, "")
          \/ \E c \in canvas_node_map, p \in canvas_node_map :
                 delete_extra_parent(c, p, FALSE)
          \/ add_node("") )
        => /\ Current' = Current
           /\ undo_stack' = undo_stack
           /\ redo_stack' = redo_stack ]_vars

\* C28: reset keeps node identity.  After a confirmed reset the Forest is the
\* single default root, that root has an id below next_id, and the redraw of
\* the canvas is defined.
C28_ResetKeepsIdentity ==
    last = "reset_tree" =>
        /\ Len(tree_data) = 1
        /\ nodes[tree_data[1]].name = RootName
        /\ nodes[tree_data[1]].children = <<>>
        /\ nodes[tree_data[1]].id # None
        /\ IdInt(nodes[tree_data[1]].id[1]) < next_id
        /\ refresh(Model).ok

\* the ids of the nodes held by the snapshots of both history stacks
HistoryIds ==
    UNION {{s.nodes[a].id[1] : a \in DOMAIN s.nodes} :
               s \in Range(undo_stack) \cup Range(redo_stack)}

\* C29: ids are never reused.  No step of adding, deleting, undoing and
\* redoing decreases next_id, and after each of them the ids of the live
\* Forest are pairwise distinct and below next_id, as is every id a snapshot
\* of the history could restore.
C29_IdsNeverReused ==
    [][ /\ next_id' >= next_id
        /\ \A a \in DOMAIN nodes' :
               /\ nodes'[a].id # None
               /\ IdInt(nodes'[a].id[1]) < next_id'
               /\ \A b \in DOMAIN nodes' : a # b => nodes'[a].id # nodes'[b].id
        /\ \A s \in HistoryIds' : IdInt(s) < next_id' ]_vars

\* a node was added, the add undone, and another node added: id 2 stays unused
C29_Witness ==
    /\ last \in {"add_child", "add_node"}
    /\ ForestIds = {"1", "3"}
    /\ next_id = 4

\* C30: memo saves land in the live Forest.  Every accepted memo save, from
\* a memo editor opened on a node or from the side panel's selection, leaves
\* the saved text as the memo of a node of the current Forest: the node the
\* editor was opened on, or the selected node.
C30_MemoSavesLand ==
    [][ \A text \in MemoInputs :
            /\ popup_save_memo(text) =>
                   /\ popup_node \in DOMAIN nodes'
                   /\ nodes'[popup_node].memo = text
            /\ (selection # NoNode /\ panel_save_memo(text)) =>
                   /\ selection \in DOMAIN nodes'
                   /\ nodes'[selection].memo = text ]_vars

====
